---- MODULE Spec2Model ----
(***************************************************************************)
(* Convolution layers of python/paddle/nn/layer/conv.py: the constructors  *)
(* of Conv1d, Conv2d, Conv3d, ConvTranspose1d, ConvTranspose2d and         *)
(* ConvTranspose3d (the last four share _ConvNd.__init__) and their        *)
(* forward methods, as far as they decide the geometry handed to the       *)
(* backend (F.pad, F.convNd, F.conv_transposeNd).                          *)
(***************************************************************************)
EXTENDS Integers, Sequences, FiniteSets, TLC

(***************************************************************************)
(* Bounds of the model.                                                    *)
(***************************************************************************)
MaxChannels == 3
MaxGroups == 2
MaxKernel == 3
MaxStride == 2
MaxDilation == 2
MaxPad == 1
MaxOutputPadding == 1
MaxInput == 4
MaxOutputSize == 11

\* Spatial extent of the input in the docstring examples, x of shape (2, 4, 8, 8).
ExampleInput == 8

(***************************************************************************)
(* Python values.  An argument that may be an int, a str, a list of ints,  *)
(* a list of pairs or PyNone is a record tagged with its Python type.        *)
(***************************************************************************)
PyInt(k) == [type |-> "int", val |-> <<k>>]
PyStr(s) == [type |-> "str", val |-> <<s>>]
PyList(t) == [type |-> "list", val |-> t]
PyPairs(t) == [type |-> "pairs", val |-> t]
PyNone == [type |-> "none", val |-> <<>>]
\* An attribute the constructor never assigned.
Unset == [type |-> "unset", val |-> <<>>]

IntOf(v) == v.val[1]

NoError == [kind |-> "", param |-> ""]
Error(kind, param) == [kind |-> kind, param |-> param]
Ok(t) == [ok |-> TRUE, val |-> t, error |-> NoError]
Err(kind, param) == [ok |-> FALSE, val |-> <<>>, error |-> Error(kind, param)]

Classes ==
    {"Conv1d", "Conv2d", "Conv3d",
     "ConvTranspose1d", "ConvTranspose2d", "ConvTranspose3d"}
ForwardClasses == {"Conv1d", "Conv2d", "Conv3d"}
TransposedClasses == Classes \ ForwardClasses

\* The dims argument each class hands to convert_to_list / _ConvNd.__init__.
Dims(cls) ==
    CASE cls \in {"Conv1d", "ConvTranspose1d"} -> 1
      [] cls \in {"Conv2d", "ConvTranspose2d"} -> 2
      [] cls \in {"Conv3d", "ConvTranspose3d"} -> 3

(***************************************************************************)
(* utils.convert_to_list(value, n, name): a scalar is replicated n times,  *)
(* a sequence must have exactly n entries, and every entry must be an      *)
(* integer of the parameter's domain (stride, dilation and kernel size are *)
(* at least 1, a padding amount is at least 0).                            *)
(***************************************************************************)
MinEntry(name) == IF name = "padding" THEN 0 ELSE 1

convert_to_list(value, n, name) ==
    IF value.type = "int"
    THEN IF IntOf(value) >= MinEntry(name)
         THEN Ok([i \in 1..n |-> IntOf(value)])
         ELSE Err("InvalidParameter", name)
    ELSE IF value.type \in {"list", "pairs"}
    THEN IF Len(value.val) # n
         THEN Err("ShapeMismatch", name)
         ELSE IF value.type = "pairs"
         THEN Err("InvalidParameter", name)
         ELSE IF \E i \in 1..n : value.val[i] < MinEntry(name)
         THEN Err("InvalidParameter", name)
         ELSE Ok(value.val)
    ELSE Err("InvalidParameter", name)

(***************************************************************************)
(* _reverse_repeat_list(t, n):                                             *)
(*     list(x for x in reversed(t) for _ in range(n))                      *)
(***************************************************************************)
Repeat(x, n) == [i \in 1..n |-> x]

RECURSIVE ReverseRepeatFrom(_, _, _)
ReverseRepeatFrom(t, i, n) ==
    IF i = 0 THEN <<>> ELSE Repeat(t[i], n) \o ReverseRepeatFrom(t, i - 1, n)

\* Mutant: range(n + 1) in place of range(n).
MutReverseRepeatOnceMore(t, n) == ReverseRepeatFrom(t, Len(t), n + 1)

reverse_repeat_list(t, n) == ReverseRepeatFrom(t, Len(t), n)

(***************************************************************************)
(* Pieces of the constructors.                                             *)
(***************************************************************************)
valid_padding_modes == {"zeros", "reflect", "replicate", "circular"}
nonzero_padding_modes == {"reflect", "replicate", "circular"}

\* isinstance(padding, np.int)
IsInt(padding) == padding.type = "int"

\* _ConvNd.__init__: self._stride, self._dilation, self._kernel_size
\* Mutant: the length 1 of the 1-D constructors in the shared constructor.
MutNormalizeToOne(value, dims, name) == convert_to_list(value, 1, name)

\* Mutant: a scalar replicated in place, [value] * dims, without the conversion.
MutNormalizeNdScalarUnchecked(value, dims, name) ==
    IF value.type = "int" THEN Ok([i \in 1..dims |-> IntOf(value)])
    ELSE convert_to_list(value, dims, name)

NormalizeNd(value, dims, name) == convert_to_list(value, dims, name)

\* Conv1d.__init__ / ConvTranspose1d.__init__: convert_to_list(value, 1, name)
\* Mutant: a longer sequence is cut to its first entry.
MutNormalize1dFirstEntry(value, name) ==
    convert_to_list(IF value.type = "list" THEN PyList(<<value.val[1]>>) ELSE value,
                    1, name)

Normalize1d(value, name) == convert_to_list(value, 1, name)

\* _ConvNd.__init__, forward branch: in_channels % groups != 0
\* Mutant: the divisibility check left out.
MutGroupsUnchecked(in_channels, groups) == FALSE

GroupsMismatchNd(in_channels, groups) == in_channels % groups # 0

\* Conv1d.__init__: in_channels % groups != 0
GroupsMismatch1d(in_channels, groups) == in_channels % groups # 0

\* _ConvNd.__init__, forward branch: [out_channels, in_channels // groups] + kernel_size
\* Mutant: the transposed layout in the forward branch.
MutFilterShapeSwapped(in_channels, out_channels, groups, kernel_size) ==
    <<in_channels, out_channels \div groups>> \o kernel_size

FilterShapeNd(in_channels, out_channels, groups, kernel_size) ==
    <<out_channels, in_channels \div groups>> \o kernel_size

\* Conv1d.__init__: [self._out_channels, num_filter_channels] + self._kernel_size
FilterShape1d(in_channels, out_channels, groups, kernel_size) ==
    <<out_channels, in_channels \div groups>> \o kernel_size

\* _ConvNd.__init__, transposed branch: [in_channels, out_channels // groups] + kernel_size
FilterShapeTransposedNd(in_channels, out_channels, groups, kernel_size) ==
    <<in_channels, out_channels \div groups>> \o kernel_size

\* ConvTranspose1d.__init__: [self._in_channels, out_channels // groups] + self._kernel_size
FilterShapeTransposed1d(in_channels, out_channels, groups, kernel_size) ==
    <<in_channels, out_channels \div groups>> \o kernel_size

\* Mutant: [padding] * dims built in place, without convert_to_list.
MutReversedPaddingUnconverted(padding, dims) ==
    Ok(reverse_repeat_list([i \in 1..dims |-> IntOf(padding)], 2))

\* _ConvNd.__init__: _reverse_repeat_list(convert_to_list(padding, dims, 'padding'), 2)
ReversedPaddingRepeatedTwice(padding, dims) ==
    LET paired == convert_to_list(padding, dims, "padding")
    IN  IF paired.ok THEN Ok(reverse_repeat_list(paired.val, 2)) ELSE paired

\* Conv1d.__init__: convert_to_list(padding, 1, 'padding') * 2
PaddingTwice1d(padding) ==
    LET one == convert_to_list(padding, 1, "padding")
    IN  IF one.ok THEN Ok(one.val \o one.val) ELSE one

(***************************************************************************)
(* Layer objects and constructor outcomes.                                 *)
(***************************************************************************)
NoLayer ==
    [cls |-> "", in_channels |-> 0, out_channels |-> 0, groups |-> 0,
     stride |-> <<>>, dilation |-> <<>>, kernel_size |-> <<>>,
     padding |-> Unset, padding_mode |-> "", output_padding |-> Unset,
     reversed_padding_repeated_twice |-> Unset,
     weight |-> <<>>, bias |-> <<>>]

Raise(kind, param) == [ok |-> FALSE, error |-> Error(kind, param), obj |-> NoLayer]
Built(obj) == [ok |-> TRUE, error |-> NoError, obj |-> obj]

\* The statements of a constructor body that ran: all of them when it returns,
\* those up to the raising one when it raises.
Upto(body, stmt) == SubSeq(body, 1, CHOOSE i \in 1..Len(body) : body[i] = stmt)

RaiseAt(body, stmt, kind, param) ==
    [done |-> Upto(body, stmt)] @@ Raise(kind, param)
BuiltBy(body, obj) == [done |-> body] @@ Built(obj)

\* Mutant: the divisibility check moved behind the creation of the parameters.
MutConvNdStatementsGroupsLast(a, transposed) ==
    <<"check_padding_mode", "check_padding_type", "stride", "dilation", "kernel_size">>
    \o (IF transposed THEN <<>>
        ELSE IF a.padding_mode \in {"reflect", "replicate", "circular"}
        THEN <<"reversed_padding">> ELSE <<>>)
    \o <<"filter_shape", "weight", "bias">>
    \o (IF transposed THEN <<>> ELSE <<"check_groups">>)

\* _ConvNd.__init__: the checks, conversions and allocations in program order.
ConvNd_statements(a, transposed) ==
    <<"check_padding_mode", "check_padding_type", "stride", "dilation", "kernel_size">>
    \o (IF transposed THEN <<>>
        ELSE <<"check_groups">>
             \o (IF a.padding_mode \in {"reflect", "replicate", "circular"}
                 THEN <<"reversed_padding">> ELSE <<>>))
    \o <<"filter_shape", "weight", "bias">>

\* Mutant: the padding converted after the parameters are created.
MutConv1dStatementsPaddingLast(a) ==
    <<"check_groups", "kernel_size", "stride", "dilation",
      "check_padding_mode", "check_padding_type">>
    \o <<"filter_shape", "weight", "bias">>
    \o (IF a.padding.type # "str" THEN <<"padding">> ELSE <<>>)

\* Conv1d.__init__ in program order.
Conv1d_statements(a) ==
    <<"check_groups", "kernel_size", "stride", "dilation",
      "check_padding_mode", "check_padding_type">>
    \o (IF a.padding.type # "str" THEN <<"padding">> ELSE <<>>)
    \o <<"filter_shape", "weight", "bias">>

\* ConvTranspose1d.__init__ in program order.
ConvTranspose1d_statements ==
    <<"stride", "dilation", "kernel_size", "filter_shape", "weight", "bias">>

\* _ConvNd.__init__(in_channels, out_channels, kernel_size, transposed, dims, ...)
ConvNd_init(cls, a, transposed, dims) ==
    LET body == ConvNd_statements(a, transposed)
        stride == NormalizeNd(a.stride, dims, "stride")
        dilation == NormalizeNd(a.dilation, dims, "dilation")
        kernel_size == NormalizeNd(a.kernel_size, dims, "kernel_size")
        rprt == ReversedPaddingRepeatedTwice(a.padding, dims)
        self == [cls |-> cls,
                 in_channels |-> a.in_channels,
                 out_channels |-> a.out_channels,
                 groups |-> a.groups,
                 stride |-> stride.val,
                 dilation |-> dilation.val,
                 kernel_size |-> kernel_size.val,
                 padding |-> a.padding,
                 padding_mode |-> a.padding_mode,
                 output_padding |-> a.output_padding,
                 reversed_padding_repeated_twice |-> Unset,
                 weight |-> <<>>,
                 bias |-> <<a.out_channels>>]
    IN  IF a.padding_mode \notin valid_padding_modes
        THEN RaiseAt(body, "check_padding_mode", "ValueError", "padding_mode")
        ELSE IF a.padding_mode \in nonzero_padding_modes /\ ~IsInt(a.padding)
        THEN RaiseAt(body, "check_padding_type", "TypeError", "padding")
        ELSE IF ~stride.ok THEN RaiseAt(body, "stride", stride.error.kind, "stride")
        ELSE IF ~dilation.ok
        THEN RaiseAt(body, "dilation", dilation.error.kind, "dilation")
        ELSE IF ~kernel_size.ok
        THEN RaiseAt(body, "kernel_size", kernel_size.error.kind, "kernel_size")
        ELSE IF transposed
        THEN BuiltBy(body, [self EXCEPT !.weight =
                 FilterShapeTransposedNd(a.in_channels, a.out_channels, a.groups,
                                         kernel_size.val)])
        ELSE IF GroupsMismatchNd(a.in_channels, a.groups)
        THEN RaiseAt(body, "check_groups", "ValueError", "groups")
        ELSE IF a.padding_mode \in nonzero_padding_modes /\ ~rprt.ok
        THEN RaiseAt(body, "reversed_padding", rprt.error.kind, "padding")
        ELSE BuiltBy(body, [self EXCEPT
                 !.reversed_padding_repeated_twice =
                     IF a.padding_mode \in nonzero_padding_modes
                     THEN PyList(rprt.val) ELSE Unset,
                 !.weight =
                     FilterShapeNd(a.in_channels, a.out_channels, a.groups,
                                   kernel_size.val)])

\* Conv1d.__init__
Conv1d_init(a) ==
    LET body == Conv1d_statements(a)
        kernel_size == Normalize1d(a.kernel_size, "kernel_size")
        stride == Normalize1d(a.stride, "stride")
        dilation == Normalize1d(a.dilation, "dilation")
        twice == PaddingTwice1d(a.padding)
        self == [cls |-> "Conv1d",
                 in_channels |-> a.in_channels,
                 out_channels |-> a.out_channels,
                 groups |-> a.groups,
                 stride |-> stride.val,
                 dilation |-> dilation.val,
                 kernel_size |-> kernel_size.val,
                 padding |-> IF a.padding.type = "str" THEN a.padding
                             ELSE PyList(twice.val),
                 padding_mode |-> a.padding_mode,
                 output_padding |-> Unset,
                 reversed_padding_repeated_twice |-> Unset,
                 weight |-> FilterShape1d(a.in_channels, a.out_channels, a.groups,
                                          kernel_size.val),
                 bias |-> <<a.out_channels>>]
    IN  IF GroupsMismatch1d(a.in_channels, a.groups)
        THEN RaiseAt(body, "check_groups", "ValueError", "groups")
        ELSE IF ~kernel_size.ok
        THEN RaiseAt(body, "kernel_size", kernel_size.error.kind, "kernel_size")
        ELSE IF ~stride.ok THEN RaiseAt(body, "stride", stride.error.kind, "stride")
        ELSE IF ~dilation.ok
        THEN RaiseAt(body, "dilation", dilation.error.kind, "dilation")
        ELSE IF a.padding_mode \notin valid_padding_modes
        THEN RaiseAt(body, "check_padding_mode", "ValueError", "padding_mode")
        ELSE IF a.padding_mode \in nonzero_padding_modes /\ ~IsInt(a.padding)
        THEN RaiseAt(body, "check_padding_type", "ValueError", "padding")
        ELSE IF a.padding.type # "str" /\ ~twice.ok
        THEN RaiseAt(body, "padding", twice.error.kind, "padding")
        ELSE BuiltBy(body, self)

\* ConvTranspose1d.__init__
ConvTranspose1d_init(a) ==
    LET body == ConvTranspose1d_statements
        stride == Normalize1d(a.stride, "stride")
        dilation == Normalize1d(a.dilation, "dilation")
        kernel_size == Normalize1d(a.kernel_size, "kernel_size")
        self == [cls |-> "ConvTranspose1d",
                 in_channels |-> a.in_channels,
                 out_channels |-> a.out_channels,
                 groups |-> a.groups,
                 stride |-> stride.val,
                 dilation |-> dilation.val,
                 kernel_size |-> kernel_size.val,
                 padding |-> a.padding,
                 padding_mode |-> "zeros",
                 output_padding |-> a.output_padding,
                 reversed_padding_repeated_twice |-> Unset,
                 weight |-> FilterShapeTransposed1d(a.in_channels, a.out_channels,
                                                    a.groups, kernel_size.val),
                 bias |-> <<a.out_channels>>]
    IN  IF ~stride.ok THEN RaiseAt(body, "stride", stride.error.kind, "stride")
        ELSE IF ~dilation.ok
        THEN RaiseAt(body, "dilation", dilation.error.kind, "dilation")
        ELSE IF ~kernel_size.ok
        THEN RaiseAt(body, "kernel_size", kernel_size.error.kind, "kernel_size")
        ELSE BuiltBy(body, self)

\* Conv2d.__init__, Conv3d.__init__: output_padding keeps _ConvNd's default 0
Conv2d_init(a) == ConvNd_init("Conv2d", [a EXCEPT !.output_padding = PyInt(0)], FALSE, 2)
Conv3d_init(a) == ConvNd_init("Conv3d", [a EXCEPT !.output_padding = PyInt(0)], FALSE, 3)

\* ConvTranspose2d.__init__, ConvTranspose3d.__init__: padding_mode keeps the default 'zeros'
ConvTranspose2d_init(a) ==
    ConvNd_init("ConvTranspose2d", [a EXCEPT !.padding_mode = "zeros"], TRUE, 2)
ConvTranspose3d_init(a) ==
    ConvNd_init("ConvTranspose3d", [a EXCEPT !.padding_mode = "zeros"], TRUE, 3)

Construct(cls, a) ==
    CASE cls = "Conv1d" -> Conv1d_init(a)
      [] cls = "Conv2d" -> Conv2d_init(a)
      [] cls = "Conv3d" -> Conv3d_init(a)
      [] cls = "ConvTranspose1d" -> ConvTranspose1d_init(a)
      [] cls = "ConvTranspose2d" -> ConvTranspose2d_init(a)
      [] cls = "ConvTranspose3d" -> ConvTranspose3d_init(a)

(***************************************************************************)
(* The backend the forward methods call.                                   *)
(***************************************************************************)
\* An argument the caller left out of the call.
PyOmitted == [type |-> "omitted", val |-> <<>>]

Failed(kind, param) ==
    [ok |-> FALSE, error |-> Error(kind, param), prepad |-> <<>>,
     conv_padding |-> Unset, output_padding |-> Unset, size |-> <<>>]

\* F.pad(x, pad, mode): pad lists (before, after) per axis, innermost axis first.
F_pad(x, pad) ==
    LET d == Len(x)
    IN  [j \in 1..d |-> x[j] + pad[2 * (d - j) + 1] + pad[2 * (d - j) + 2]]

\* The padding forms a convolution accepts, resolved to (before, after) per axis.
update_padding_nd(padding, dims) ==
    LET v == padding.val
    IN  CASE padding.type = "int" ->
               [ok |-> TRUE, algorithm |-> "EXPLICIT", error |-> NoError,
                val |-> [j \in 1..dims |-> <<IntOf(padding), IntOf(padding)>>]]
          [] padding.type = "str" ->
               [ok |-> TRUE, error |-> NoError,
                algorithm |-> IF v[1] = "same" THEN "SAME" ELSE "VALID",
                val |-> [j \in 1..dims |-> <<0, 0>>]]
          [] padding.type = "list" /\ Len(v) = dims ->
               [ok |-> TRUE, algorithm |-> "EXPLICIT", error |-> NoError,
                val |-> [j \in 1..dims |-> <<v[j], v[j]>>]]
          [] padding.type = "list" /\ Len(v) = 2 * dims /\ dims # 0 ->
               [ok |-> TRUE, algorithm |-> "EXPLICIT", error |-> NoError,
                val |-> [j \in 1..dims |-> <<v[2 * j - 1], v[2 * j]>>]]
          [] padding.type = "pairs" /\ Len(v) = dims ->
               [ok |-> TRUE, algorithm |-> "EXPLICIT", error |-> NoError, val |-> v]
          [] padding.type = "pairs" /\ Len(v) = dims + 2 ->
               IF v[1] = <<0, 0>> /\ v[2] = <<0, 0>>
               THEN [ok |-> TRUE, algorithm |-> "EXPLICIT", error |-> NoError,
                     val |-> [j \in 1..dims |-> v[j + 2]]]
               ELSE [ok |-> FALSE, algorithm |-> "EXPLICIT",
                     error |-> Error("InvalidParameter", "padding"), val |-> <<>>]
          [] OTHER ->
               [ok |-> FALSE, algorithm |-> "EXPLICIT",
                error |-> Error("ShapeMismatch", "padding"), val |-> <<>>]

\* Mutant: the "+ 1" of the dilated kernel extent left out.
MutConvOutputSizeNoExtent(H_in, pad_before, pad_after, dilation, kernel_size, stride) ==
    (H_in + pad_before + pad_after - dilation * (kernel_size - 1)) \div stride + 1

\* Docstring of Conv1d/Conv2d/Conv3d:
\*   H_out = (H_in + 2 * paddings - (dilations * (kernel_size - 1) + 1)) / strides + 1
\* with the two sides of the padding written apart.
ConvOutputSize(H_in, pad_before, pad_after, dilation, kernel_size, stride) ==
    (H_in + pad_before + pad_after - (dilation * (kernel_size - 1) + 1)) \div stride + 1

\* ceil(input / stride), the extent 'same' padding keeps.
SameOutputSize(H_in, stride) == (H_in + stride - 1) \div stride

\* F.conv1d / F.conv2d / F.conv3d on an input of spatial shape x.
F_conv(x, prepad, kernel_size, padding, stride, dilation) ==
    LET d == Len(x)
        p == update_padding_nd(padding, d)
        size == [j \in 1..d |->
                    IF p.algorithm = "SAME"
                    THEN SameOutputSize(x[j], stride[j])
                    ELSE ConvOutputSize(x[j], p.val[j][1], p.val[j][2],
                                        dilation[j], kernel_size[j], stride[j])]
    IN  IF ~p.ok THEN Failed(p.error.kind, p.error.param)
        ELSE IF \E j \in 1..d : size[j] <= 0 THEN Failed("InvalidGeometry", "input")
        ELSE [ok |-> TRUE, error |-> NoError, prepad |-> prepad,
              conv_padding |-> padding, output_padding |-> Unset, size |-> size]

\* Mutant: the "+ 1" of the dilated kernel extent left out.
MutNominalOutputSizeNoExtent(H_in, pad_before, pad_after, dilation, kernel_size, stride) ==
    (H_in - 1) * stride - pad_before - pad_after + dilation * (kernel_size - 1)

\* Docstring of ConvTranspose1d/2d/3d:
\*   H'_out = (H_in - 1) * strides - pad_top - pad_bottom + dilations * (kernel_size - 1) + 1
NominalOutputSize(H_in, pad_before, pad_after, dilation, kernel_size, stride) ==
    (H_in - 1) * stride - pad_before - pad_after + dilation * (kernel_size - 1) + 1

\* Docstring of ConvTranspose1d: L_out in [ L'_out, L'_out + stride ]
OutputSizeInRange1d(o, nominal, stride) == nominal <= o /\ o <= nominal + stride

\* Docstring of ConvTranspose2d: H_out in [ H'_out, H'_out + strides[0] )
OutputSizeInRange2d(o, nominal, stride) == nominal <= o /\ o < nominal + stride

\* ConvTranspose3d: the admissible range [nominal, nominal + stride)
OutputSizeInRange3d(o, nominal, stride) == nominal <= o /\ o < nominal + stride

OutputSizeInRange(d, o, nominal, stride) ==
    CASE d = 1 -> OutputSizeInRange1d(o, nominal, stride)
      [] d = 2 -> OutputSizeInRange2d(o, nominal, stride)
      [] d = 3 -> OutputSizeInRange3d(o, nominal, stride)

\* F.conv_transpose1d / F.conv_transpose2d / F.conv_transpose3d.
F_conv_transpose(x, kernel_size, padding, output_padding, stride, dilation, output_size) ==
    LET d == Len(x)
        p == update_padding_nd(padding, d)
        nominal == [j \in 1..d |->
                       NominalOutputSize(x[j], p.val[j][1], p.val[j][2],
                                         dilation[j], kernel_size[j], stride[j])]
        extra == IF output_padding.type = "int"
                 THEN [j \in 1..d |-> IntOf(output_padding)]
                 ELSE output_padding.val
        want == IF output_size.type = "int"
                THEN [j \in 1..d |-> IntOf(output_size)]
                ELSE output_size.val
    IN  IF ~p.ok THEN Failed(p.error.kind, p.error.param)
        ELSE IF output_size.type = "none"
        THEN IF \E j \in 1..d : nominal[j] + extra[j] <= 0
             THEN Failed("InvalidGeometry", "input")
             ELSE [ok |-> TRUE, error |-> NoError, prepad |-> <<>>,
                   conv_padding |-> padding, output_padding |-> output_padding,
                   size |-> [j \in 1..d |-> nominal[j] + extra[j]]]
        ELSE IF Len(want) # d THEN Failed("ShapeMismatch", "output_size")
        ELSE IF \E j \in 1..d : want[j] <= 0
                   \/ ~OutputSizeInRange(d, want[j], nominal[j], stride[j])
        THEN Failed("InvalidGeometry", "output_size")
        ELSE [ok |-> TRUE, error |-> NoError, prepad |-> <<>>,
              conv_padding |-> padding, output_padding |-> output_padding,
              size |-> want]

(***************************************************************************)
(* The forward methods.                                                    *)
(***************************************************************************)
\* Mutant: the padding is handed to the convolution after the pre-pad as well.
MutConv1dForwardPadsTwice(self, x) ==
    IF self.padding_mode # "zeros"
    THEN F_conv(F_pad(x, self.padding.val), self.padding.val, self.kernel_size,
                self.padding, self.stride, self.dilation)
    ELSE F_conv(x, <<>>, self.kernel_size, self.padding, self.stride, self.dilation)

\* Conv1d.forward(x)
Conv1d_forward(self, x) ==
    IF self.padding_mode # "zeros"
    THEN F_conv(F_pad(x, self.padding.val), self.padding.val, self.kernel_size,
                PyInt(0), self.stride, self.dilation)
    ELSE F_conv(x, <<>>, self.kernel_size, self.padding, self.stride, self.dilation)

\* Mutant: the convolution is handed the input as it came, not the padded one.
MutConv2dForwardUnpaddedInput(self, x) ==
    IF self.padding_mode # "zeros"
    THEN F_conv(x, self.reversed_padding_repeated_twice.val, self.kernel_size,
                PyInt(0), self.stride, self.dilation)
    ELSE F_conv(x, <<>>, self.kernel_size, self.padding, self.stride, self.dilation)

\* Conv2d.forward(x)
Conv2d_forward(self, x) ==
    IF self.padding_mode # "zeros"
    THEN F_conv(F_pad(x, self.reversed_padding_repeated_twice.val),
                self.reversed_padding_repeated_twice.val, self.kernel_size,
                PyInt(0), self.stride, self.dilation)
    ELSE F_conv(x, <<>>, self.kernel_size, self.padding, self.stride, self.dilation)

\* Mutant: the padding is handed to the convolution after the pre-pad as well.
MutConv3dForwardPadsTwice(self, x) ==
    IF self.padding_mode # "zeros"
    THEN F_conv(F_pad(x, self.reversed_padding_repeated_twice.val),
                self.reversed_padding_repeated_twice.val, self.kernel_size,
                self.padding, self.stride, self.dilation)
    ELSE F_conv(x, <<>>, self.kernel_size, self.padding, self.stride, self.dilation)

\* Conv3d.forward(x)
Conv3d_forward(self, x) ==
    IF self.padding_mode # "zeros"
    THEN F_conv(F_pad(x, self.reversed_padding_repeated_twice.val),
                self.reversed_padding_repeated_twice.val, self.kernel_size,
                PyInt(0), self.stride, self.dilation)
    ELSE F_conv(x, <<>>, self.kernel_size, self.padding, self.stride, self.dilation)

\* ConvTranspose1d.forward(x, output_size=None)
ConvTranspose1d_forward(self, x, output_size) ==
    LET given == IF output_size.type = "omitted" THEN PyNone ELSE output_size
    IN  F_conv_transpose(x, self.kernel_size, self.padding, self.output_padding,
                         self.stride, self.dilation, given)

\* Mutant: the constructed output_padding never reaches the backend.
MutConvTranspose2dForwardZeroOutputPadding(self, x, output_size) ==
    LET given == IF output_size.type = "omitted" THEN PyNone ELSE output_size
    IN  F_conv_transpose(x, self.kernel_size, self.padding, PyInt(0),
                         self.stride, self.dilation, given)

\* ConvTranspose2d.forward(x, output_size=None)
ConvTranspose2d_forward(self, x, output_size) ==
    LET given == IF output_size.type = "omitted" THEN PyNone ELSE output_size
        output_padding == IF given.type = "none" THEN self.output_padding ELSE PyInt(0)
    IN  F_conv_transpose(x, self.kernel_size, self.padding, output_padding,
                         self.stride, self.dilation, given)

\* ConvTranspose3d.forward(x, output_size): output_size has no default
ConvTranspose3d_forward(self, x, output_size) ==
    LET output_padding == IF output_size.type = "none" THEN self.output_padding
                          ELSE PyInt(0)
    IN  IF output_size.type = "omitted"
        THEN Failed("TypeError", "output_size")
        ELSE F_conv_transpose(x, self.kernel_size, self.padding, output_padding,
                              self.stride, self.dilation, output_size)

(***************************************************************************)
(* Arguments the constructors are called with.  Each family varies some    *)
(* arguments and leaves the others at the defaults of the signatures       *)
(* (stride=1, padding=0, dilation=1, groups=1, padding_mode='zeros',       *)
(* output_padding=0).                                                      *)
(***************************************************************************)
DefaultArgs ==
    [in_channels |-> 1, out_channels |-> 1, kernel_size |-> PyInt(1),
     stride |-> PyInt(1), padding |-> PyInt(0), dilation |-> PyInt(1),
     groups |-> 1, padding_mode |-> "zeros", output_padding |-> PyInt(0)]

ChannelArgs ==
    {[DefaultArgs EXCEPT !.in_channels = c[1], !.out_channels = c[2], !.groups = c[3]] :
        c \in (1..MaxChannels) \X (1..MaxChannels) \X (1..MaxGroups)}

GeometryArgs ==
    {[DefaultArgs EXCEPT !.kernel_size = PyInt(g[1]), !.stride = PyInt(g[2]),
                         !.dilation = PyInt(g[3]), !.padding = PyInt(g[4]),
                         !.padding_mode = g[5]] :
        g \in (1..MaxKernel) \X (1..MaxStride) \X (1..MaxDilation) \X (0..MaxPad)
              \X valid_padding_modes}

OutputPaddingArgs ==
    {[DefaultArgs EXCEPT !.stride = PyInt(g[1]), !.dilation = PyInt(g[2]),
                         !.output_padding = PyInt(g[3])] :
        g \in (1..MaxStride) \X (1..MaxDilation) \X (-1..MaxOutputPadding)}

\* The five forms of the padding argument, for d spatial axes.
PaddingForms(d) ==
    {PyInt(k) : k \in -1..MaxPad}
    \cup {PyStr("same"), PyStr("valid")}
    \cup {PyList(t) : t \in [1..d -> 0..MaxPad]}
    \cup {PyList([i \in 1..(2 * d) |-> IF i % 2 = 1 THEN q[1] ELSE q[2]]) :
             q \in (0..MaxPad) \X (0..MaxPad)}
    \cup {PyList([i \in 1..(2 * d) |-> IF i = k THEN MaxPad ELSE 0]) : k \in 1..(2 * d)}
    \cup {PyPairs([i \in 1..d |-> q]) : q \in (0..MaxPad) \X (0..MaxPad)}
    \cup {PyPairs(<<b, c>> \o [i \in 1..d |-> <<MaxPad, MaxPad>>]) :
             b \in {<<0, 0>>, <<MaxPad, 0>>}, c \in {<<0, 0>>, <<0, MaxPad>>}}

PaddingModes == valid_padding_modes \cup {"constant"}

PaddingArgs(d) ==
    {[DefaultArgs EXCEPT !.padding = p[1], !.padding_mode = p[2]] :
        p \in PaddingForms(d) \X PaddingModes}

\* Scalar and sequence forms of stride, dilation and kernel size.
AxisForms ==
    {PyInt(0), PyInt(-1)} \cup {PyList([i \in 1..n[1] |-> n[2]]) : n \in (1..3) \X {0, MaxStride}}

AxisArgs ==
    {[DefaultArgs EXCEPT !.kernel_size = v] : v \in AxisForms}
    \cup {[DefaultArgs EXCEPT !.stride = v] : v \in AxisForms}
    \cup {[DefaultArgs EXCEPT !.dilation = v] : v \in AxisForms}

\* Several arguments invalid at once, groups not dividing in_channels among them.
MixedArgs ==
    {[DefaultArgs EXCEPT !.in_channels = MaxGroups + 1, !.groups = MaxGroups,
                         !.padding = m[1], !.padding_mode = m[2], !.stride = m[3]] :
        m \in {PyInt(0), PyList(<<0>>)} \X {"zeros", "reflect", "constant"}
              \X {PyInt(1), PyList(<<1, 1, 1, 1>>)}}

AllArgs(d) ==
    ChannelArgs \cup GeometryArgs \cup OutputPaddingArgs \cup PaddingArgs(d)
    \cup AxisArgs \cup MixedArgs

\* The forward layers take no output_padding, the transposed ones no padding_mode.
ArgsFor(cls) ==
    IF cls \in ForwardClasses
    THEN {a \in AllArgs(Dims(cls)) : a.output_padding = PyInt(0)}
    ELSE {a \in AllArgs(Dims(cls)) :
             a.padding_mode = "zeros" /\ a.padding # PyStr("same")}

\* Spatial extents of the inputs: every small extent for one and two axes; the
\* smallest, the largest and the docstrings' extent for three axes.
InputSizes(d) ==
    IF d = 3 THEN {1, MaxInput, ExampleInput} ELSE (1..MaxInput) \cup {ExampleInput}
InputShapes(d) == [1..d -> InputSizes(d)]
OutputSizeArgs ==
    {PyOmitted, PyNone} \cup {PyInt(o) : o \in ExampleInput..MaxOutputSize}

(***************************************************************************)
(* The state machine: one layer is constructed, then called.               *)
(***************************************************************************)
VARIABLES cls, args, status, error, layer, done, call, kept, threads

vars == <<cls, args, status, error, layer, done, call, kept, threads>>

\* The threads that may call the layer at the same time, and what one of them
\* holds: its arguments, the locals of forward, and the outcome.
Threads == {"a", "b"}

NoLocals == [x |-> <<>>, prepad |-> <<>>, padding |-> Unset, output_padding |-> Unset]

NoResult == Failed("", "")
NoCall == [x |-> <<>>, output_size |-> PyOmitted, result |-> NoResult]
Outside ==
    [pc |-> "outside", x |-> <<>>, output_size |-> PyOmitted, locals |-> NoLocals,
     result |-> NoResult]

Init ==
    /\ cls = ""
    /\ args = DefaultArgs
    /\ status = "Unvalidated"
    /\ error = NoError
    /\ layer = NoLayer
    /\ done = <<>>
    /\ call = NoCall
    /\ kept = NoCall
    /\ threads = [t \in Threads |-> Outside]

\* The constructor ran to its end (the layer is Ready) or raised (no layer).
Constructed(c, a, r) ==
    /\ cls' = c
    /\ args' = a
    /\ status' = IF r.ok THEN "Ready" ELSE "Failed"
    /\ error' = r.error
    /\ layer' = r.obj
    /\ done' = r.done
    /\ UNCHANGED <<call, kept, threads>>

NewConv1d ==
    /\ status = "Unvalidated"
    /\ \E a \in ArgsFor("Conv1d") : Constructed("Conv1d", a, Conv1d_init(a))

NewConv2d ==
    /\ status = "Unvalidated"
    /\ \E a \in ArgsFor("Conv2d") : Constructed("Conv2d", a, Conv2d_init(a))

NewConv3d ==
    /\ status = "Unvalidated"
    /\ \E a \in ArgsFor("Conv3d") : Constructed("Conv3d", a, Conv3d_init(a))

NewConvTranspose1d ==
    /\ status = "Unvalidated"
    /\ \E a \in ArgsFor("ConvTranspose1d") :
          Constructed("ConvTranspose1d", a, ConvTranspose1d_init(a))

NewConvTranspose2d ==
    /\ status = "Unvalidated"
    /\ \E a \in ArgsFor("ConvTranspose2d") :
          Constructed("ConvTranspose2d", a, ConvTranspose2d_init(a))

NewConvTranspose3d ==
    /\ status = "Unvalidated"
    /\ \E a \in ArgsFor("ConvTranspose3d") :
          Constructed("ConvTranspose3d", a, ConvTranspose3d_init(a))

Idle(c) == status = "Ready" /\ layer.cls = c /\ call = NoCall

Called(x, output_size, result) ==
    /\ call' = [x |-> x, output_size |-> output_size, result |-> result]
    /\ UNCHANGED <<cls, args, status, error, layer, done, kept, threads>>

\* Mutant: the padding handed to the convolution is written to the layer.
MutForwardConv1dStoresPadding ==
    /\ Idle("Conv1d")
    /\ \E x \in InputShapes(1) :
          /\ call' = [x |-> x, output_size |-> PyOmitted,
                       result |-> Conv1d_forward(layer, x)]
          /\ layer' = [layer EXCEPT !.padding =
                                       IF layer.padding_mode # "zeros"
                                       THEN PyInt(0) ELSE @]
          /\ UNCHANGED <<cls, args, status, error, done, kept, threads>>

ForwardConv1d ==
    /\ Idle("Conv1d")
    /\ \E x \in InputShapes(1) : Called(x, PyOmitted, Conv1d_forward(layer, x))

ForwardConv2d ==
    /\ Idle("Conv2d")
    /\ \E x \in InputShapes(2) : Called(x, PyOmitted, Conv2d_forward(layer, x))

ForwardConv3d ==
    /\ Idle("Conv3d")
    /\ \E x \in InputShapes(3) : Called(x, PyOmitted, Conv3d_forward(layer, x))

ForwardConvTranspose1d ==
    /\ Idle("ConvTranspose1d")
    /\ \E x \in InputShapes(1), o \in OutputSizeArgs :
          Called(x, o, ConvTranspose1d_forward(layer, x, o))

\* Mutant: the forward method stores the output_padding of the call on the layer.
MutForwardConvTranspose2dStoresOutputPadding ==
    /\ Idle("ConvTranspose2d")
    /\ \E x \in InputShapes(2), o \in OutputSizeArgs :
          /\ call' = [x |-> x, output_size |-> o,
                       result |-> ConvTranspose2d_forward(layer, x, o)]
          /\ layer' = [layer EXCEPT !.output_padding =
                                       IF o.type = "int" THEN PyInt(0) ELSE @]
          /\ UNCHANGED <<cls, args, status, error, done, kept, threads>>

ForwardConvTranspose2d ==
    /\ Idle("ConvTranspose2d")
    /\ \E x \in InputShapes(2), o \in OutputSizeArgs :
          Called(x, o, ConvTranspose2d_forward(layer, x, o))

ForwardConvTranspose3d ==
    /\ Idle("ConvTranspose3d")
    /\ \E x \in InputShapes(3), o \in OutputSizeArgs :
          Called(x, o, ConvTranspose3d_forward(layer, x, o))

\* The caller takes the result; the layer is ready for the next call.
Return ==
    /\ call # NoCall
    /\ call' = NoCall
    /\ UNCHANGED <<cls, args, status, error, layer, done, kept, threads>>

\* The docstring examples, y_var = conv(x_var): the caller keeps the outcome of
\* a call on the example input, and has it at hand during the later calls.
ExampleShape(d) == [j \in 1..d |-> ExampleInput]

Keep ==
    /\ call # NoCall
    /\ kept = NoCall
    /\ call.x = ExampleShape(Dims(cls))
    /\ kept' = call
    /\ call' = NoCall
    /\ UNCHANGED <<cls, args, status, error, layer, done, threads>>

Next ==
    \/ NewConv1d
    \/ NewConv2d
    \/ NewConv3d
    \/ NewConvTranspose1d
    \/ NewConvTranspose2d
    \/ NewConvTranspose3d
    \/ ForwardConv1d
    \/ ForwardConv2d
    \/ ForwardConv3d
    \/ ForwardConvTranspose1d
    \/ ForwardConvTranspose2d
    \/ ForwardConvTranspose3d
    \/ Return

Spec == Init /\ [][Next]_vars

\* The same, with the caller keeping the outcome of an earlier call.
NextRepeated ==
    \/ NewConv1d
    \/ NewConv2d
    \/ NewConv3d
    \/ NewConvTranspose1d
    \/ NewConvTranspose2d
    \/ NewConvTranspose3d
    \/ ForwardConv1d
    \/ ForwardConv2d
    \/ ForwardConv3d
    \/ ForwardConvTranspose1d
    \/ ForwardConvTranspose2d
    \/ ForwardConvTranspose3d
    \/ Return
    \/ Keep

SpecRepeated == Init /\ [][NextRepeated]_vars

(***************************************************************************)
(* Forward calls of several threads on one layer.  A call is not atomic:   *)
(* forward first settles its locals (the padded input, the padding or the  *)
(* output_padding of this call), then calls the backend, reading the       *)
(* attributes of the layer at each of the two points.                      *)
(***************************************************************************)
\* Conv1d.forward, up to the call of F.conv1d
Conv1d_locals(self, x) ==
    IF self.padding_mode # "zeros"
    THEN [x |-> F_pad(x, self.padding.val), prepad |-> self.padding.val,
          padding |-> PyInt(0), output_padding |-> Unset]
    ELSE [x |-> x, prepad |-> <<>>, padding |-> self.padding,
          output_padding |-> Unset]

\* Conv2d.forward / Conv3d.forward, up to the call of F.conv2d / F.conv3d
ConvNd_locals(self, x) ==
    IF self.padding_mode # "zeros"
    THEN [x |-> F_pad(x, self.reversed_padding_repeated_twice.val),
          prepad |-> self.reversed_padding_repeated_twice.val,
          padding |-> PyInt(0), output_padding |-> Unset]
    ELSE [x |-> x, prepad |-> <<>>, padding |-> Unset, output_padding |-> Unset]

\* ConvTranspose1d.forward has no statement before the call of F.conv_transpose1d
ConvTranspose1d_locals(self, x) ==
    [x |-> x, prepad |-> <<>>, padding |-> Unset, output_padding |-> Unset]

\* ConvTranspose2d.forward / ConvTranspose3d.forward: the if/else on output_size
ConvTransposeNd_locals(self, x, output_size) ==
    [x |-> x, prepad |-> <<>>, padding |-> Unset,
     output_padding |-> IF output_size.type = "none" THEN self.output_padding
                        ELSE PyInt(0)]

Locals(self, x, output_size) ==
    CASE self.cls = "Conv1d" -> Conv1d_locals(self, x)
      [] self.cls \in {"Conv2d", "Conv3d"} -> ConvNd_locals(self, x)
      [] self.cls = "ConvTranspose1d" -> ConvTranspose1d_locals(self, x)
      [] self.cls \in {"ConvTranspose2d", "ConvTranspose3d"} ->
            ConvTransposeNd_locals(self, x, output_size)

\* The call of the backend, with the locals and the attributes read at the call.
BackendCall(self, l, output_size) ==
    IF self.cls \in ForwardClasses
    THEN F_conv(l.x, l.prepad, self.kernel_size,
                IF l.padding = Unset THEN self.padding ELSE l.padding,
                self.stride, self.dilation)
    ELSE F_conv_transpose(l.x, self.kernel_size, self.padding,
                          IF l.output_padding = Unset THEN self.output_padding
                          ELSE l.output_padding,
                          self.stride, self.dilation, output_size)

\* What the threads call the layer with.
ThreadShapes(d) == {ExampleShape(d), [j \in 1..d |-> MaxInput]}
ThreadOutputSizes(c) ==
    IF c \in ForwardClasses THEN {PyOmitted} ELSE {PyNone, PyInt(ExampleInput)}

Enter(t) ==
    /\ status = "Ready"
    /\ threads[t].pc = "outside"
    /\ \E x \in ThreadShapes(Dims(layer.cls)), o \in ThreadOutputSizes(layer.cls) :
          threads' = [threads EXCEPT ![t] =
                        [Outside EXCEPT !.pc = "entered", !.x = x, !.output_size = o]]
    /\ UNCHANGED <<cls, args, status, error, layer, done, call, kept>>

\* Mutant: the output_padding of the call is settled on the layer, not in a local.
MutSettleLocalsOnLayer(t) ==
    /\ threads[t].pc = "entered"
    /\ threads' = [threads EXCEPT
                     ![t].pc = "settled",
                     ![t].locals = Locals(layer, threads[t].x, threads[t].output_size)]
    /\ layer' = [layer EXCEPT !.output_padding =
                                 IF threads[t].output_size.type = "int"
                                 THEN PyInt(0) ELSE @]
    /\ UNCHANGED <<cls, args, status, error, done, call, kept>>

SettleLocals(t) ==
    /\ threads[t].pc = "entered"
    /\ threads' = [threads EXCEPT
                     ![t].pc = "settled",
                     ![t].locals = Locals(layer, threads[t].x, threads[t].output_size)]
    /\ UNCHANGED <<cls, args, status, error, layer, done, call, kept>>

CallBackend(t) ==
    /\ threads[t].pc = "settled"
    /\ threads' = [threads EXCEPT
                     ![t].pc = "returned",
                     ![t].result = BackendCall(layer, threads[t].locals,
                                               threads[t].output_size)]
    /\ UNCHANGED <<cls, args, status, error, layer, done, call, kept>>

Leave(t) ==
    /\ threads[t].pc = "returned"
    /\ threads' = [threads EXCEPT ![t] = Outside]
    /\ UNCHANGED <<cls, args, status, error, layer, done, call, kept>>

NextConcurrent ==
    \/ NewConv1d
    \/ NewConv2d
    \/ NewConv3d
    \/ NewConvTranspose1d
    \/ NewConvTranspose2d
    \/ NewConvTranspose3d
    \/ \E t \in Threads : Enter(t)
    \/ \E t \in Threads : SettleLocals(t)
    \/ \E t \in Threads : CallBackend(t)
    \/ \E t \in Threads : Leave(t)

SpecConcurrent == Init /\ [][NextConcurrent]_vars

(***************************************************************************)
(* Vocabulary of the properties.                                           *)
(***************************************************************************)
\* The kinds an InvalidParameter failure is raised as: the ValueError of the
\* constructors' own checks and the InvalidParameter of the utilities.
InvalidParameter == {"ValueError", "InvalidParameter"}

ConstructorRan == status # "Unvalidated"
ForwardLayer == ConstructorRan /\ cls \in ForwardClasses
TransposedLayer == ConstructorRan /\ cls \in TransposedClasses
NonZeroMode == args.padding_mode \in nonzero_padding_modes
CallDone == status = "Ready" /\ call # NoCall

\* The arguments are valid once groups is 1 / once the padding is the default.
ValidButGroups == Construct(cls, [args EXCEPT !.groups = 1]).ok
ValidButPadding ==
    Construct(cls, [args EXCEPT !.padding = PyInt(0), !.padding_mode = "zeros"]).ok

\* What a scalar or a sequence argument asks for on axis i.
Asked(v, i) == IF v.type = "int" THEN IntOf(v) ELSE v.val[i]

\* The list a forward layer hands to F.pad.
PrePadList ==
    IF cls = "Conv1d" THEN layer.padding.val
    ELSE layer.reversed_padding_repeated_twice.val

(***************************************************************************)
(* C1: for every dimensionality d in {1,2,3}, a scalar s given as stride,  *)
(* kernel size or dilation is stored by the constructor as a list of       *)
(* exactly d entries, each equal to s.                                     *)
(***************************************************************************)
C1_ScalarsBecomeLists ==
    status = "Ready" =>
        /\ args.stride.type = "int" =>
              layer.stride = [i \in 1..Dims(cls) |-> IntOf(args.stride)]
        /\ args.kernel_size.type = "int" =>
              layer.kernel_size = [i \in 1..Dims(cls) |-> IntOf(args.kernel_size)]
        /\ args.dilation.type = "int" =>
              layer.dilation = [i \in 1..Dims(cls) |-> IntOf(args.dilation)]

C1_Witness ==
    /\ status = "Ready"
    /\ cls = "Conv3d"
    /\ args.stride = PyInt(2)
    /\ args.kernel_size = PyInt(3)
    /\ args.dilation = PyInt(2)
    /\ layer.stride = <<2, 2, 2>>
    /\ layer.kernel_size = <<3, 3, 3>>
    /\ layer.dilation = <<2, 2, 2>>

(***************************************************************************)
(* C2: constructing a forward convolution with in_channels not divisible   *)
(* by groups fails and produces no layer, with InvalidParameter when the   *)
(* other arguments are valid; with in_channels divisible by groups and the *)
(* other arguments valid, construction succeeds.                           *)
(***************************************************************************)
C2_GroupsDivideInChannels ==
    ForwardLayer =>
        /\ args.in_channels % args.groups # 0 =>
              /\ status = "Failed"
              /\ layer = NoLayer
              /\ ValidButGroups =>
                    error.kind \in InvalidParameter /\ error.param = "groups"
        /\ args.in_channels % args.groups = 0 /\ ValidButGroups => status = "Ready"

C2_Witness ==
    /\ cls = "Conv2d"
    /\ args.in_channels = 3
    /\ args.groups = 2
    /\ ValidButGroups
    /\ status = "Failed"
    /\ error = Error("ValueError", "groups")

(***************************************************************************)
(* C3: constructing a transposed convolution with out_channels not         *)
(* divisible by groups fails with InvalidParameter; every transposed layer *)
(* that reaches Ready has out_channels % groups = 0.                       *)
(***************************************************************************)
C3_TransposedGroupsDivideOutChannels ==
    TransposedLayer =>
        /\ args.out_channels % args.groups # 0 =>
              status = "Failed" /\ error.kind \in InvalidParameter
        /\ status = "Ready" => layer.out_channels % layer.groups = 0

(***************************************************************************)
(* C4: the weight of a constructed forward convolution of dimensionality d *)
(* has the shape [out_channels, in_channels/groups] followed by the d      *)
(* kernel-size entries: d + 2 entries, in_channels/groups an exact         *)
(* quotient.                                                               *)
(***************************************************************************)
C4_ForwardWeightShape ==
    ForwardLayer /\ status = "Ready" =>
        /\ Len(layer.weight) = Dims(cls) + 2
        /\ layer.weight[1] = args.out_channels
        /\ layer.weight[2] * args.groups = args.in_channels
        /\ \A i \in 1..Dims(cls) : layer.weight[i + 2] = Asked(args.kernel_size, i)

C4_Witness ==
    /\ status = "Ready"
    /\ cls = "Conv2d"
    /\ args.in_channels = 2
    /\ args.out_channels = 3
    /\ args.groups = 2
    /\ layer.weight = <<3, 1, 1, 1>>

(***************************************************************************)
(* C5: the weight of a constructed transposed convolution has the shape    *)
(* [in_channels, out_channels/groups] followed by the d kernel-size        *)
(* entries, and (out_channels/groups) * groups = out_channels.             *)
(***************************************************************************)
C5_TransposedWeightShape ==
    TransposedLayer /\ status = "Ready" =>
        /\ Len(layer.weight) = Dims(cls) + 2
        /\ layer.weight[1] = args.in_channels
        /\ layer.weight[2] * args.groups = args.out_channels
        /\ \A i \in 1..Dims(cls) : layer.weight[i + 2] = Asked(args.kernel_size, i)

(***************************************************************************)
(* C6: for every dimensionality and every padding mode among reflect,      *)
(* replicate and circular, construction with a padding that is not a       *)
(* single integer fails, with the same error kind InvalidParameter in the  *)
(* 1-D variant as in the 2-D and 3-D variants.                             *)
(***************************************************************************)
C6_NonIntegerPaddingSameError ==
    ForwardLayer /\ NonZeroMode /\ args.padding.type # "int" =>
        status = "Failed" /\ error.kind \in InvalidParameter

(***************************************************************************)
(* C7: a non-zero padding mode with a single integer padding k >= 0        *)
(* constructs (the other arguments being valid) and yields a pre-pad list  *)
(* of 2*d integers, d pairs (k, k): the per-axis padding list reversed,    *)
(* each entry twice.  Every forward call pads with that list.              *)
(***************************************************************************)
C7_UniformPrePad ==
    ForwardLayer /\ NonZeroMode /\ args.padding.type = "int"
                 /\ IntOf(args.padding) >= 0 /\ ValidButPadding =>
        /\ status = "Ready"
        /\ Len(PrePadList) = 2 * Dims(cls)
        /\ \A i \in 1..Dims(cls) :
              /\ PrePadList[2 * i - 1] = IntOf(args.padding)
              /\ PrePadList[2 * i] = IntOf(args.padding)
        /\ call # NoCall /\ call.result.ok => call.result.prepad = PrePadList

C7_Witness ==
    /\ status = "Ready"
    /\ cls = "Conv3d"
    /\ args.padding_mode = "reflect"
    /\ args.padding = PyInt(1)
    /\ layer.reversed_padding_repeated_twice = PyList(<<1, 1, 1, 1, 1, 1>>)
    /\ call # NoCall
    /\ call.result.ok
    /\ call.result.prepad = <<1, 1, 1, 1, 1, 1>>

AskedPadding == update_padding_nd(args.padding, Dims(cls))

C9_Formula(j) ==
    (call.x[j] + AskedPadding.val[j][1] + AskedPadding.val[j][2]
        - Asked(args.dilation, j) * (Asked(args.kernel_size, j) - 1) - 1)
      \div Asked(args.stride, j) + 1

C9_Case(j, input, kernel, pad) ==
    /\ call.x[j] = input
    /\ Asked(args.kernel_size, j) = kernel
    /\ Asked(args.stride, j) = 1
    /\ Asked(args.dilation, j) = 1
    /\ args.padding = PyInt(pad)

C9_ForwardOutputSize ==
    CallDone /\ cls \in ForwardClasses /\ args.padding.type # "str"
             /\ AskedPadding.ok =>
        /\ call.result.ok <=> \A j \in 1..Dims(cls) : C9_Formula(j) > 0
        /\ call.result.ok =>
              \A j \in 1..Dims(cls) :
                  /\ call.result.size[j] = C9_Formula(j)
                  /\ C9_Case(j, 4, 3, 0) => call.result.size[j] = 2
                  /\ C9_Case(j, 4, 3, 1) => call.result.size[j] = 4
                  /\ C9_Case(j, ExampleInput, 3, 0) => call.result.size[j] = 6

C9_Witness ==
    /\ CallDone
    /\ cls = "Conv2d"
    /\ call.x = <<4, ExampleInput>>
    /\ C9_Case(1, 4, 3, 1)
    /\ call.result.ok
    /\ call.result.size = <<4, 8>>

(***************************************************************************)
(* C10: the nominal output size of a transposed convolution per axis is    *)
(*   (input-1)*stride - pad_before - pad_after + dilation*(kernel-1) + 1,  *)
(* and an explicit output size is accepted if and only if on every axis    *)
(* it lies in [nominal, nominal + stride); any other size, nominal +       *)
(* stride included, fails with InvalidGeometry.                            *)
(***************************************************************************)
C10_Nominal(j) ==
    (call.x[j] - 1) * Asked(args.stride, j)
      - AskedPadding.val[j][1] - AskedPadding.val[j][2]
      + Asked(args.dilation, j) * (Asked(args.kernel_size, j) - 1) + 1

C10_Admissible(j) ==
    /\ C10_Nominal(j) <= IntOf(call.output_size)
    /\ IntOf(call.output_size) < C10_Nominal(j) + Asked(args.stride, j)

C10_ExplicitOutputSizeRange ==
    CallDone /\ cls \in TransposedClasses /\ call.output_size.type = "int"
             /\ AskedPadding.ok =>
        /\ call.result.ok <=> \A j \in 1..Dims(cls) : C10_Admissible(j)
        /\ ~call.result.ok => call.result.error.kind = "InvalidGeometry"

(***************************************************************************)
(* C11: in every transposed variant, a forward call that supplies an       *)
(* explicit output size hands output_padding 0 to the backend whatever     *)
(* output_padding the layer was constructed with, and the constructed      *)
(* value stays on the layer for later calls.                               *)
(***************************************************************************)
ExplicitSizeCall ==
    CallDone /\ cls \in TransposedClasses /\ call.output_size.type = "int"

C11_ExplicitSizeForcesZeroOutputPadding ==
    ExplicitSizeCall =>
        /\ call.result.ok => call.result.output_padding = PyInt(0)
        /\ layer.output_padding = args.output_padding

(***************************************************************************)
(* C12: in every transposed variant, a forward call that supplies no       *)
(* explicit output size resolves, on each axis, to exactly                 *)
(* nominal + output_padding; with output_padding 0, kernel 3, stride 1 and *)
(* no padding, an input of 8 resolves to 10.                               *)
(***************************************************************************)
NoExplicitSizeCall ==
    CallDone /\ cls \in TransposedClasses /\ call.output_size.type # "int"

Max(a, b) == IF a >= b THEN a ELSE b

OutputPaddingOutOfRange(j) ==
    \/ Asked(args.output_padding, j) < 0
    \/ Asked(args.output_padding, j) >= Asked(args.stride, j)
    \/ Asked(args.output_padding, j)
          >= Max(Asked(args.stride, j), Asked(args.dilation, j))

C13_OutputPaddingValidated ==
    TransposedLayer =>
        /\ /\ args.stride.type = "int"
           /\ args.dilation.type = "int"
           /\ \E j \in 1..Dims(cls) : OutputPaddingOutOfRange(j)
           => status = "Failed" /\ error.kind \in InvalidParameter
        /\ status = "Ready" =>
              \A j \in 1..Dims(cls) :
                  /\ 0 <= Asked(layer.output_padding, j)
                  /\ Asked(layer.output_padding, j) < layer.stride[j]

(***************************************************************************)
(* C14: in every transposed variant the explicit output size is optional:  *)
(* a forward call that passes only the input succeeds whenever the sizes   *)
(* it resolves to are positive; the 3-D layer with kernel 3 on an 8x8x8    *)
(* input yields 10x10x10.                                                  *)
(***************************************************************************)
OmittedSizeCall ==
    CallDone /\ cls \in TransposedClasses /\ call.output_size = PyOmitted

C14_OutputSizeOptional ==
    OmittedSizeCall /\ AskedPadding.ok =>
        /\ (\A j \in 1..Dims(cls) :
               C10_Nominal(j) + Asked(args.output_padding, j) > 0)
           => call.result.ok
        /\ (\A j \in 1..Dims(cls) : C9_Case(j, ExampleInput, 3, 0))
              /\ args.output_padding = PyInt(0)
           => call.result.size = [j \in 1..Dims(cls) |-> 10]

(***************************************************************************)
(* C15: in zeros padding mode, for every dimensionality d, a flat padding  *)
(* list of 2*d integers is accepted by the constructor, and its            *)
(* consecutive entries are the (before, after) padding of the spatial axes *)
(* in order: the list reaches the convolution as given, and axis j is      *)
(* padded by entries 2j-1 and 2j.                                          *)
(***************************************************************************)
PerAxisPairPadding ==
    /\ ConstructorRan
    /\ args.padding_mode = "zeros"
    /\ args.padding.type = "list"
    /\ Len(args.padding.val) = 2 * Dims(cls)

C15_PairSize(j) ==
    IF cls \in ForwardClasses
    THEN ConvOutputSize(call.x[j], args.padding.val[2 * j - 1], args.padding.val[2 * j],
                        Asked(args.dilation, j), Asked(args.kernel_size, j),
                        Asked(args.stride, j))
    ELSE NominalOutputSize(call.x[j], args.padding.val[2 * j - 1],
                           args.padding.val[2 * j], Asked(args.dilation, j),
                           Asked(args.kernel_size, j), Asked(args.stride, j))
         + Asked(args.output_padding, j)

C15_PerAxisPairAccepted ==
    PerAxisPairPadding /\ ValidButPadding =>
        /\ status = "Ready"
        /\ call # NoCall /\ call.result.ok /\ call.output_size.type # "int" =>
              /\ call.result.conv_padding = args.padding
              /\ \A j \in 1..Dims(cls) : call.result.size[j] = C15_PairSize(j)

(***************************************************************************)
(* C16: a padding given as a list of pairs that includes the batch and the *)
(* channel dimension fails with InvalidParameter when the batch pair or    *)
(* the channel pair is not (0,0); when both are (0,0) the layer is built   *)
(* and the d pairs after them pad the spatial axes.                        *)
(***************************************************************************)
BatchChannelPairsPadding ==
    /\ ConstructorRan
    /\ args.padding_mode = "zeros"
    /\ args.padding.type = "pairs"
    /\ Len(args.padding.val) = Dims(cls) + 2

C16_PairSize(j) ==
    IF cls \in ForwardClasses
    THEN ConvOutputSize(call.x[j], args.padding.val[j + 2][1],
                        args.padding.val[j + 2][2], Asked(args.dilation, j),
                        Asked(args.kernel_size, j), Asked(args.stride, j))
    ELSE NominalOutputSize(call.x[j], args.padding.val[j + 2][1],
                           args.padding.val[j + 2][2], Asked(args.dilation, j),
                           Asked(args.kernel_size, j), Asked(args.stride, j))
         + Asked(args.output_padding, j)

C16_BatchChannelPairs ==
    BatchChannelPairsPadding /\ ValidButPadding =>
        IF args.padding.val[1] = <<0, 0>> /\ args.padding.val[2] = <<0, 0>>
        THEN /\ status = "Ready"
             /\ call # NoCall /\ call.result.ok /\ call.output_size.type # "int" =>
                   \A j \in 1..Dims(cls) : call.result.size[j] = C16_PairSize(j)
        ELSE \/ status = "Failed" /\ error.kind \in InvalidParameter
             \/ /\ status = "Ready"
                /\ call # NoCall /\ call.output_size # PyOmitted =>
                      /\ ~call.result.ok
                      /\ call.result.error.kind \in InvalidParameter

(***************************************************************************)
(* C17: for every dimensionality d, a stride, dilation or kernel size      *)
(* given as a sequence whose length is not d makes construction fail and   *)
(* produces no layer; the other arguments being valid, the failure is a    *)
(* ShapeMismatch naming that parameter.                                    *)
(***************************************************************************)
WrongLength(v) == v.type = "list" /\ Len(v.val) # Dims(cls)

ValidButStride == Construct(cls, [args EXCEPT !.stride = PyInt(1)]).ok
ValidButDilation == Construct(cls, [args EXCEPT !.dilation = PyInt(1)]).ok
ValidButKernelSize == Construct(cls, [args EXCEPT !.kernel_size = PyInt(1)]).ok

NonPositive(v) ==
    \/ v.type = "int" /\ IntOf(v) < 1
    \/ v.type = "list" /\ \E i \in 1..Len(v.val) : v.val[i] < 1

C18_Rejected(v, validOtherwise, name) ==
    NonPositive(v) =>
        /\ status = "Failed" /\ layer = NoLayer
        /\ validOtherwise /\ ~WrongLength(v) =>
              error.kind \in InvalidParameter /\ error.param = name

C18_PositiveEntries ==
    ConstructorRan =>
        /\ C18_Rejected(args.stride, ValidButStride, "stride")
        /\ C18_Rejected(args.dilation, ValidButDilation, "dilation")
        /\ C18_Rejected(args.kernel_size, ValidButKernelSize, "kernel_size")
        /\ status = "Ready" =>
              /\ Len(layer.stride) = Dims(cls)
              /\ Len(layer.dilation) = Dims(cls)
              /\ Len(layer.kernel_size) = Dims(cls)
              /\ \A i \in 1..Dims(cls) :
                    /\ layer.stride[i] >= 1
                    /\ layer.dilation[i] >= 1
                    /\ layer.kernel_size[i] >= 1

C18_Witness ==
    /\ cls = "Conv2d"
    /\ args.kernel_size = PyInt(0)
    /\ ValidButKernelSize
    /\ status = "Failed"
    /\ layer = NoLayer
    /\ error = Error("InvalidParameter", "kernel_size")

(***************************************************************************)
(* C19: a forward call of a forward convolution whose computed output size *)
(* is <= 0 on some axis (the padded input smaller than the dilated kernel  *)
(* extent) fails with InvalidGeometry, and only then; no call returns a    *)
(* size below 1.                                                           *)
(***************************************************************************)
C19_NonPositiveSizeRejected ==
    CallDone /\ cls \in ForwardClasses =>
        /\ AskedPadding.ok /\ args.padding # PyStr("same") =>
              ((\E j \in 1..Dims(cls) : C9_Formula(j) <= 0)
                  <=> /\ ~call.result.ok
                      /\ call.result.error.kind = "InvalidGeometry")
        /\ call.result.ok =>
              /\ Len(call.result.size) = Dims(cls)
              /\ \A j \in 1..Dims(cls) : call.result.size[j] >= 1

C19_Witness ==
    /\ CallDone
    /\ cls = "Conv2d"
    /\ C9_Case(1, 1, 3, 0)
    /\ C9_Formula(1) = -1
    /\ ~call.result.ok
    /\ call.result.error.kind = "InvalidGeometry"
    /\ call.result.size = <<>>

(***************************************************************************)
(* C20: two forward calls on the same Ready layer with the same input      *)
(* shape and the same (or the same absent) explicit output size have the   *)
(* same outcome: the same pre-pad list, convolution padding,               *)
(* output_padding and output size, or the same failure, whatever calls     *)
(* were made between the two.                                              *)
(***************************************************************************)
RepeatedCall ==
    /\ CallDone
    /\ kept # NoCall
    /\ call.x = kept.x
    /\ call.output_size = kept.output_size

C20_RepeatedCallSameResult ==
    RepeatedCall =>
        /\ call.result.ok = kept.result.ok
        /\ call.result.error = kept.result.error
        /\ call.result.prepad = kept.result.prepad
        /\ call.result.conv_padding = kept.result.conv_padding
        /\ call.result.output_padding = kept.result.output_padding
        /\ call.result.size = kept.result.size

C20_Witness ==
    /\ RepeatedCall
    /\ cls = "ConvTranspose2d"
    /\ args.output_padding = PyInt(1)
    /\ call.output_size = PyOmitted
    /\ kept.result.ok
    /\ call.result.size = <<ExampleInput + 1, ExampleInput + 1>>

(***************************************************************************)
(* C21: construction is all-or-nothing.  When a constructor raises (bad    *)
(* padding mode, non-integer padding under a non-zero mode, groups not     *)
(* dividing the channels, a list of the wrong length) the caller gets no   *)
(* layer and neither weight nor bias was created; a layer the caller holds *)
(* is Ready with every field set.                                          *)
(***************************************************************************)
Ran(stmt) == \E i \in 1..Len(done) : done[i] = stmt

AllFieldsSet ==
    /\ layer.cls = cls
    /\ layer.in_channels = args.in_channels
    /\ layer.out_channels = args.out_channels
    /\ layer.groups = args.groups
    /\ Len(layer.stride) = Dims(cls)
    /\ Len(layer.dilation) = Dims(cls)
    /\ Len(layer.kernel_size) = Dims(cls)
    /\ layer.padding # Unset
    /\ layer.padding_mode \in valid_padding_modes
    /\ cls # "Conv1d" => layer.output_padding # Unset
    /\ cls \in {"Conv2d", "Conv3d"} /\ NonZeroMode =>
          layer.reversed_padding_repeated_twice # Unset
    /\ Len(layer.weight) = Dims(cls) + 2
    /\ layer.bias = <<args.out_channels>>

C21_AllOrNothing ==
    ConstructorRan =>
        /\ status \in {"Ready", "Failed"}
        /\ status = "Failed" =>
              /\ error # NoError
              /\ layer = NoLayer
              /\ ~Ran("weight") /\ ~Ran("bias")
        /\ status = "Ready" =>
              /\ error = NoError
              /\ AllFieldsSet
              /\ Ran("weight") /\ Ran("bias")
        /\ ForwardLayer /\ args.padding_mode \notin valid_padding_modes =>
              status = "Failed"
        /\ ForwardLayer /\ NonZeroMode /\ args.padding.type # "int" =>
              status = "Failed"
        /\ ForwardLayer /\ args.in_channels % args.groups # 0 => status = "Failed"
        /\ WrongLength(args.stride) \/ WrongLength(args.dilation)
              \/ WrongLength(args.kernel_size) => status = "Failed"

C21_Witness ==
    /\ cls = "Conv1d"
    /\ args.padding = PyList(<<0, MaxPad>>)
    /\ args.padding_mode = "zeros"
    /\ status = "Failed"
    /\ layer = NoLayer
    /\ Ran("padding")
    /\ ~Ran("filter_shape")

(***************************************************************************)
(* C24: in every constructor the validations (padding-mode membership,     *)
(* padding type under a non-zero mode, list-length normalization, group    *)
(* divisibility) run strictly before the weight shape is computed and      *)
(* before weight and bias are created; a constructor that raises has       *)
(* computed no weight shape.                                               *)
(***************************************************************************)
Validations ==
    {"check_padding_mode", "check_padding_type", "stride", "dilation",
     "kernel_size", "check_groups", "reversed_padding", "padding"}

Allocations == {"filter_shape", "weight", "bias"}

C24_ValidationsBeforeAllocation ==
    ConstructorRan =>
        /\ \A i, j \in 1..Len(done) :
              done[i] \in Validations /\ done[j] \in Allocations => i < j
        /\ \A i, j \in 1..Len(done) :
              done[i] = "filter_shape" /\ done[j] \in {"weight", "bias"} => i < j
        /\ status = "Failed" => \A i \in 1..Len(done) : done[i] \notin Allocations
        /\ status = "Ready" =>
              /\ Ran("stride") /\ Ran("dilation") /\ Ran("kernel_size")
              /\ ForwardLayer =>
                    /\ Ran("check_padding_mode")
                    /\ Ran("check_padding_type")
                    /\ Ran("check_groups")

C24_Witness ==
    /\ cls = "Conv3d"
    /\ status = "Ready"
    /\ args.padding_mode = "reflect"
    /\ done = <<"check_padding_mode", "check_padding_type", "stride", "dilation",
                "kernel_size", "check_groups", "reversed_padding",
                "filter_shape", "weight", "bias">>

(***************************************************************************)
(* C23: a forward call on a Ready layer, whether it succeeds or fails,     *)
(* leaves the configuration as it is: stride, dilation, kernel size,       *)
(* padding, padding mode, groups, channel counts, weight shape,            *)
(* output_padding and the stored pre-pad list are after every step what    *)
(* they were before it, hence what the constructor left.                   *)
(***************************************************************************)
C23_ConfigurationKept ==
    /\ status' = "Ready"
    /\ layer'.cls = layer.cls
    /\ layer'.stride = layer.stride
    /\ layer'.dilation = layer.dilation
    /\ layer'.kernel_size = layer.kernel_size
    /\ layer'.padding = layer.padding
    /\ layer'.padding_mode = layer.padding_mode
    /\ layer'.groups = layer.groups
    /\ layer'.in_channels = layer.in_channels
    /\ layer'.out_channels = layer.out_channels
    /\ layer'.weight = layer.weight
    /\ layer'.bias = layer.bias
    /\ layer'.output_padding = layer.output_padding
    /\ layer'.reversed_padding_repeated_twice = layer.reversed_padding_repeated_twice
    /\ layer' = Construct(cls, args).obj

C23_ForwardLeavesConfiguration == [][status = "Ready" => C23_ConfigurationKept]_vars

C23_Witness ==
    /\ CallDone
    /\ cls = "Conv1d"
    /\ NonZeroMode
    /\ ~call.result.ok
    /\ call.result.error.kind = "InvalidGeometry"
    /\ layer = Construct(cls, args).obj
    /\ layer.padding = PyList(<<MaxPad, MaxPad>>)

(***************************************************************************)
(* C22: forward calls of several threads on the same Ready layer,          *)
(* interleaved in any order and with different inputs or explicit output   *)
(* sizes, each end with the outcome the same call has when it runs alone;  *)
(* no call writes an attribute of the layer that another one reads.        *)
(***************************************************************************)
\* The outcome of forward(x, output_size) on the layer as constructed.
Alone(x, output_size) ==
    LET self == Construct(cls, args).obj
    IN  CASE cls = "Conv1d" -> Conv1d_forward(self, x)
          [] cls = "Conv2d" -> Conv2d_forward(self, x)
          [] cls = "Conv3d" -> Conv3d_forward(self, x)
          [] cls = "ConvTranspose1d" -> ConvTranspose1d_forward(self, x, output_size)
          [] cls = "ConvTranspose2d" -> ConvTranspose2d_forward(self, x, output_size)
          [] cls = "ConvTranspose3d" -> ConvTranspose3d_forward(self, x, output_size)

C22_ConcurrentCallsAsAlone ==
    \A t \in Threads :
        /\ threads[t].pc # "outside" => layer = Construct(cls, args).obj
        /\ threads[t].pc = "returned" =>
              threads[t].result = Alone(threads[t].x, threads[t].output_size)

C22_Witness ==
    /\ cls = "ConvTranspose2d"
    /\ args.output_padding = PyInt(1)
    /\ threads["a"].pc = "returned"
    /\ threads["b"].pc = "returned"
    /\ threads["a"].output_size = PyInt(ExampleInput)
    /\ threads["b"].output_size = PyNone
    /\ threads["a"].x = ExampleShape(2)
    /\ threads["b"].x = <<MaxInput, MaxInput>>
    /\ threads["a"].result.ok
    /\ threads["a"].result.size = <<ExampleInput, ExampleInput>>
    /\ threads["b"].result.ok
    /\ threads["b"].result.size = <<MaxInput + 1, MaxInput + 1>>

(***************************************************************************)
(* C25: in every forward call of a forward layer with padding mode         *)
(* reflect, replicate or circular, the padding passed to the backend       *)
(* convolution is 0 and the pre-pad is applied exactly once before it;     *)
(* with padding mode zeros there is no pre-pad and the padding of the      *)
(* layer is passed to the convolution.                                     *)
(***************************************************************************)
\* The output size when the pre-pad list is applied once and nothing else.
C25_PrePaddedOnce(j) ==
    LET d == Dims(cls)
    IN  ConvOutputSize(call.x[j] + PrePadList[2 * (d - j) + 1]
                                 + PrePadList[2 * (d - j) + 2],
                       0, 0, layer.dilation[j], layer.kernel_size[j],
                       layer.stride[j])

C25_PrePadThenZeroPadding ==
    CallDone /\ cls \in ForwardClasses /\ call.result.ok =>
        IF layer.padding_mode \in nonzero_padding_modes
        THEN /\ call.result.conv_padding = PyInt(0)
             /\ call.result.prepad = PrePadList
             /\ Len(call.result.prepad) = 2 * Dims(cls)
             /\ \A j \in 1..Dims(cls) : call.result.size[j] = C25_PrePaddedOnce(j)
        ELSE /\ call.result.prepad = <<>>
             /\ call.result.conv_padding = layer.padding
             /\ cls # "Conv1d" => call.result.conv_padding = args.padding

C25_Witness ==
    /\ CallDone
    /\ cls = "Conv1d"
    /\ layer.padding_mode = "circular"
    /\ args.padding = PyInt(MaxPad)
    /\ call.x = <<MaxInput>>
    /\ call.result.ok
    /\ call.result.prepad = <<MaxPad, MaxPad>>
    /\ call.result.conv_padding = PyInt(0)
    /\ call.result.size = <<MaxInput + 2 * MaxPad>>

(***************************************************************************)
(* C26: the forward and the transposed size formulas are inverse on the    *)
(* admissible range.  For input i >= 1, stride s, dilation, kernel and     *)
(* symmetric padding, every size o with nominal(i) <= o < nominal(i) + s   *)
(* has forward size i under the same parameters, and o = nominal(i) + s    *)
(* has forward size i + 1.                                                 *)
(***************************************************************************)
SymmetricPadding ==
    /\ AskedPadding.ok
    /\ \A j \in 1..Dims(cls) : AskedPadding.val[j][1] = AskedPadding.val[j][2]

C26_Nominal(j) ==
    NominalOutputSize(call.x[j], AskedPadding.val[j][1], AskedPadding.val[j][2],
                      layer.dilation[j], layer.kernel_size[j], layer.stride[j])

C26_Forward(j, o) ==
    ConvOutputSize(o, AskedPadding.val[j][1], AskedPadding.val[j][2],
                   layer.dilation[j], layer.kernel_size[j], layer.stride[j])

C26_FormulasInverse ==
    CallDone /\ cls \in TransposedClasses /\ SymmetricPadding =>
        \A j \in 1..Dims(cls) :
            /\ call.x[j] >= 1
            /\ \A o \in C26_Nominal(j)..(C26_Nominal(j) + layer.stride[j] - 1) :
                  C26_Forward(j, o) = call.x[j]
            /\ C26_Forward(j, C26_Nominal(j) + layer.stride[j]) = call.x[j] + 1
            /\ call.result.ok /\ call.output_size.type = "int"
                  /\ call.result.size[j] < C26_Nominal(j) + layer.stride[j] =>
                  C26_Forward(j, call.result.size[j]) = call.x[j]

C26_Witness ==
    /\ CallDone
    /\ cls = "ConvTranspose2d"
    /\ SymmetricPadding
    /\ call.x = <<4, 4>>
    /\ layer.stride = <<2, 2>>
    /\ layer.kernel_size = <<3, 3>>
    /\ layer.dilation = <<1, 1>>
    /\ args.padding = PyInt(1)
    /\ C26_Nominal(1) = 7
    /\ call.output_size = PyInt(8)
    /\ call.result.ok
    /\ call.result.size = <<8, 8>>
    /\ C26_Forward(1, 8) = 4
    /\ C26_Forward(1, 9) = 5

(***************************************************************************)
(* C27: for every forward layer of dimensionality d in {1,2,3} and every   *)
(* integer padding k >= 0, a forward call under a non-zero padding mode    *)
(* (pre-pad of (k, k) per axis, convolution padding 0) resolves on every   *)
(* axis to the output size of the same layer built with padding mode       *)
(* zeros and padding k, and fails when that one fails.                     *)
(***************************************************************************)
\* The same call on the layer built from the same arguments in zeros mode.
C27_InZerosMode ==
    LET twin == Construct(cls, [args EXCEPT !.padding_mode = "zeros"]).obj
    IN  CASE cls = "Conv1d" -> Conv1d_forward(twin, call.x)
          [] cls = "Conv2d" -> Conv2d_forward(twin, call.x)
          [] cls = "Conv3d" -> Conv3d_forward(twin, call.x)

C27_NonZeroModeSameSizeAsZeros ==
    CallDone /\ cls \in ForwardClasses /\ NonZeroMode =>
        /\ args.padding.type = "int" /\ IntOf(args.padding) >= 0
        /\ Construct(cls, [args EXCEPT !.padding_mode = "zeros"]).ok
        /\ call.result.ok = C27_InZerosMode.ok
        /\ call.result.size = C27_InZerosMode.size
        /\ call.result.error = C27_InZerosMode.error

C27_Witness ==
    /\ CallDone
    /\ cls = "Conv2d"
    /\ args.padding_mode = "replicate"
    /\ args.padding = PyInt(1)
    /\ args.kernel_size = PyInt(3)
    /\ args.stride = PyInt(2)
    /\ call.x = <<4, ExampleInput>>
    /\ call.result.ok
    /\ call.result.size = <<2, 4>>
    /\ C27_InZerosMode.prepad = <<>>
    /\ C27_InZerosMode.conv_padding = PyInt(1)
    /\ C27_InZerosMode.size = <<2, 4>>

====
